---- MODULE Spec2Model ----
(***************************************************************************)
(* A model of the SoundCloud playlist manager service:                     *)
(*   app/sc_playlist_manager.py  SoundCloudPlaylistManager                 *)
(*   app/routes.py               the HTTP handlers in front of it          *)
(* One request is served at a time (requests share no state).  A request   *)
(* is received, its manager is built by the get_playlist_manager           *)
(* dependency (which validates the token), and the handler then runs the   *)
(* manager operation step by step: every call on the external SoundCloud   *)
(* client is one step whose outcome (a value, or an exception) is chosen   *)
(* by the environment and appended to the request's call log.              *)
(***************************************************************************)
EXTENDS Integers, Sequences, FiniteSets, TLC

\* ------------------------------------------------------------- bounds
\* Track ids of the small playlists are 1..MaxTrack.
MaxTrack == 2
\* A small playlist holds at most MaxLen tracks (repetitions allowed).
MaxLen == 2
\* played_playlist_ids / playlist_ids hold at most MaxIds playlist ids.
MaxIds == 2

\* ---------------------------------------------------- program constants
\* PlaylistCreateOptions.track_limit: int = 500
DefaultTrackLimit == 500

\* ------------------------------------------------------------ helpers
Range(s) == {s[k] : k \in DOMAIN s}

SeqsUpTo(S, n) == UNION {[1..k -> S] : k \in 0..n}

\* The sequences that reorder s.
Shuffles(s) ==
  {[k \in 1..Len(s) |-> s[p[k]]] :
     p \in {q \in [1..Len(s) -> 1..Len(s)] : Range(q) = 1..Len(s)}}

\* Every track id of the model, ascending.
AllTrackIds == [k \in 1..(MaxTrack + DefaultTrackLimit) |-> k]

\* list(S) of a Python set of ints: each element once.  The iteration order
\* of a set is not specified and nothing downstream reads it; the model lists
\* ascending.
ListOfSet(S) == SelectSeq(AllTrackIds, LAMBDA x : x \in S)

\* --------------------------------------------------------- input domains
Tokens == {"tok"}
Titles == {"mix"}
PlaylistVisibility == {"private", "public"}

TrackLists == SeqsUpTo(1..MaxTrack, MaxLen)

\* Upstream playlists: two small ones whose tracks the environment picks,
\* and a large one of DefaultTrackLimit + 1 tracks, one more than the default
\* track limit; it shares track MaxTrack with the small ones.
SmallPlaylistIds == {1, 2}
LargePlaylistId == Cardinality(SmallPlaylistIds) + 1
PlaylistIds == SmallPlaylistIds \cup {LargePlaylistId}
LargeTrackList == [k \in 1..(DefaultTrackLimit + 1) |-> MaxTrack + k - 1]

\* Optional[int] user_id: <<>> is None, <<u>> is the int u.
UserIdArgs == {<<>>, <<0>>, <<1>>}

\* RandomPlaylistRequest.track_count
TrackCounts == 0..(MaxLen + 1)

PlaylistCreateRequest == [title : Titles, visibility : PlaylistVisibility]

Requests ==
       [endpoint : {"health"}]
  \cup [endpoint : {"users_me"}, token : Tokens]
  \cup [endpoint : {"users_id"}, token : Tokens, user_id : {<<0>>, <<1>>}]
  \cup [endpoint : {"playlists", "tracks"}, token : Tokens, user_id : UserIdArgs]
  \cup [endpoint : {"token_validate"}, token : Tokens]
  \cup [endpoint : {"unplayed"}, token : Tokens, title : Titles,
        visibility : PlaylistVisibility, base_playlist_id : PlaylistIds,
        played_playlist_ids : SeqsUpTo(PlaylistIds, MaxIds)]
  \cup [endpoint : {"merge"}, token : Tokens, title : Titles,
        visibility : PlaylistVisibility,
        playlist_ids : SeqsUpTo(PlaylistIds, MaxIds)]
  \cup [endpoint : {"random"}, token : Tokens, title : Titles,
        visibility : PlaylistVisibility, base_playlist_id : PlaylistIds,
        track_count : TrackCounts]
  \cup [endpoint : {"delete"}, token : Tokens, playlist_id : PlaylistIds]

UsesManager(r) == r.endpoint \notin {"none", "health"}
IsDerive(r) == r.endpoint \in {"unplayed", "merge", "random"}
IsMutating(r) == r.endpoint \in {"unplayed", "merge", "random", "delete"}

\* ------------------------------------------------------------- state
VARIABLES
  pc,            \* where the request is: idle, depends, handler, loop, create, done
  req,           \* the request being served
  upstream,      \* tracks of the small upstream playlists read in this request
  client,        \* self._client: <<>> before construction, <<token>> after
  calls,         \* the calls made on SoundCloud clients in this request
  base_tracks,   \* create_unplayed_tracks_playlist: base_tracks
  played_tracks, \* create_unplayed_tracks_playlist: played_tracks
  all_tracks,    \* merge_playlists: all_tracks
  idx,           \* position of the for loop over the playlist ids
  create_args,   \* <<>> or <<[options, track_ids]>>: the call of _create_playlist
  create_out,    \* <<>> or <<outcome>>: how _create_playlist ended
  ret,           \* <<>> or <<outcome>>: how the manager operation ended
  resp           \* <<>> or <<[status, body]>>: the HTTP response

vars == <<pc, req, upstream, client, calls, base_tracks, played_tracks,
          all_tracks, idx, create_args, create_out, ret, resp>>

locals == <<base_tracks, played_tracks, all_tracks, idx>>

\* ------------------------------------------------- exceptions, outcomes
\* class PlaylistManagerError(Exception), TrackLimitExceededError and
\* InvalidTokenError(PlaylistManagerError); NameError is Python's own and
\* UpstreamError stands for whatever the SoundCloud client raises.
IsInstance(e, cls) ==
  CASE cls = "Exception" -> TRUE
    [] cls = "PlaylistManagerError" ->
         e \in {"PlaylistManagerError", "TrackLimitExceededError", "InvalidTokenError"}
    [] OTHER -> e = cls

\* How a call ends.
Return(v) == [kind |-> "return", value |-> v]
Raise(e) == [kind |-> "raise", exc |-> e]

ApiResponse(success, message) == [success |-> success, message |-> message]

PlaylistCreateOptions(title, visibility) ==
  [title |-> title, visibility |-> visibility, track_limit |-> DefaultTrackLimit]

\* One call of a method of a SoundCloud client built with `token`.
ClientCall(fn, token, arg, result) ==
  [fn |-> fn, token |-> token, arg |-> arg, result |-> result]

\* ------------------------------------------- SoundCloudPlaylistManager
\* What the environment decides while a manager is constructed:
\*   ctor_raises         SoundCloud(auth_token=token) raises in _validate_token
\*   check_raises        is_auth_token_valid() raises
\*   invalid             is_auth_token_valid() returns False
\*   client_ctor_raises  the token is valid, SoundCloud(...) raises in __init__
\*   valid               the token is valid and self._client is built
InitOutcomes == {"ctor_raises", "check_raises", "invalid", "client_ctor_raises", "valid"}

ValidateCalls(token, o) ==
  IF o = "ctor_raises" THEN <<>>
  ELSE <<ClientCall("is_auth_token_valid", token, <<>>,
                    CASE o = "check_raises" -> "raise"
                      [] o = "invalid" -> "false"
                      [] OTHER -> "true")>>

\* Mutant of _validate_token_try: the result of is_auth_token_valid() is not
\* looked at.
_validate_token_try_unchecked(o) ==
  CASE o \in {"ctor_raises", "check_raises"} -> Raise("UpstreamError")
    [] OTHER -> Return(<<>>)

\* The try body of _validate_token.
_validate_token_try(o) ==
  CASE o \in {"ctor_raises", "check_raises"} -> Raise("UpstreamError")
    [] o = "invalid" -> Raise("InvalidTokenError")
    [] OTHER -> Return(<<>>)

\* _validate_token: except Exception as e: raise InvalidTokenError(...)
_validate_token(o) ==
  LET b == _validate_token_try(o)
  IN IF b.kind = "raise" /\ IsInstance(b.exc, "Exception")
       THEN Raise("InvalidTokenError")
       ELSE b

\* __init__: self._validate_token(token); self._client = SoundCloud(auth_token=token)
__init__(token, o) ==
  LET v == _validate_token(o)
  IN IF v.kind = "raise" THEN v
     ELSE IF o = "client_ctor_raises" THEN Raise("UpstreamError")
     ELSE Return(<<token>>)

\* playlist.tracks of get_playlist(playlist_id), as ids, once the request has
\* read the playlist
TracksOf(playlist_id) ==
  IF playlist_id = LargePlaylistId THEN LargeTrackList ELSE upstream[playlist_id]

\* What get_playlist(playlist_id) may do: raise, or return a playlist.  The
\* environment decides the tracks of a small playlist when the request first
\* reads it; they stay the same for the rest of the request.
GetPlaylistOutcomes(playlist_id) ==
  {[ok |-> FALSE, tracks |-> <<>>]} \cup
  {[ok |-> TRUE, tracks |-> t] :
     t \in IF playlist_id = LargePlaylistId THEN {LargeTrackList}
           ELSE IF playlist_id \in DOMAIN upstream THEN {upstream[playlist_id]}
           ELSE TrackLists}

\* The playlists read so far, after get_playlist(playlist_id) did `o`.
Reveal(playlist_id, o) ==
  IF o.ok /\ playlist_id \in SmallPlaylistIds
    THEN [q \in DOMAIN upstream \cup {playlist_id} |->
            IF q = playlist_id THEN o.tracks ELSE upstream[q]]
    ELSE upstream

\* Mutant of _get_track_ids: a failed read gives an empty list.
_get_track_ids_swallowing(tracks, ok) ==
  IF ok THEN Return(tracks) ELSE Return(<<>>)

\* _get_track_ids: the list of the ids of the tracks get_playlist returned, or
\* PlaylistManagerError when it raised
_get_track_ids(tracks, ok) ==
  IF ok THEN Return(tracks) ELSE Raise("PlaylistManagerError")

GetPlaylistCall(playlist_id, ok) ==
  ClientCall("get_playlist", client[1], <<playlist_id>>, IF ok THEN "ok" ELSE "raise")

\* get_user: get_me() when user_id is None, else get_user(user_id)
Manager_get_user(user_id, ok) ==
  [calls |-> <<ClientCall(IF user_id = <<>> THEN "get_me" ELSE "get_user",
                          client[1], user_id, IF ok THEN "ok" ELSE "raise")>>,
   out |-> IF ok THEN Return("User") ELSE Raise("PlaylistManagerError")]

\* Python truth of an Optional[int]
Truthy(user_id) == user_id # <<>> /\ user_id[1] # 0

\* get_playlists / get_tracks: user_id = user_id or self.get_user().id, then
\* fn(user_id); any exception becomes PlaylistManagerError
Manager_list(fn, user_id, ok1, ok2) ==
  LET u == Manager_get_user(<<>>, ok1)
      list(pre, arg) ==
        [calls |-> pre \o <<ClientCall(fn, client[1], arg, IF ok2 THEN "ok" ELSE "raise")>>,
         out |-> IF ok2 THEN Return("List") ELSE Raise("PlaylistManagerError")]
  IN IF Truthy(user_id) THEN list(<<>>, user_id)
     ELSE IF u.out.kind = "raise" THEN [calls |-> u.calls, out |-> Raise("PlaylistManagerError")]
     ELSE list(u.calls, <<"me">>)

\* Mutant of TrackLimitExceeded: the limit itself is refused.
TrackLimitExceeded_inclusive(options, track_ids) == Len(track_ids) >= options.track_limit

\* len(track_ids) > options.track_limit
TrackLimitExceeded(options, track_ids) == Len(track_ids) > options.track_limit

\* Mutant of Update: the set is replaced, not extended.
Update_overwriting(s, ids) == Range(ids)

\* played_tracks.update(ids) / all_tracks.update(ids)
Update(s, ids) == s \cup Range(ids)

\* Mutant of Unplayed: the symmetric difference, base_tracks ^ played_tracks.
Unplayed_symmetric(base, played) == (base \ played) \cup (played \ base)

\* base_tracks - played_tracks
Unplayed(base, played) == base \ played

\* `random` is a name of the module only if the module imports it; the
\* imports are dataclasses, typing, enum, soundcloud and api_response.
ModuleImports == {"dataclass", "List", "Optional", "Enum", "SoundCloud",
                  "BasicAlbumPlaylist", "User", "BasicTrack", "ApiResponse"}
RandomIsBound == "random" \in ModuleImports

\* Mutant of CountExceedsAvailable: the count is not checked.
CountExceedsAvailable_unchecked(track_count, track_ids) == FALSE

\* track_count > len(track_ids)
CountExceedsAvailable(track_count, track_ids) == track_count > Len(track_ids)

\* Mutant of UnplayedExcept: only TrackLimitExceededError is caught.
UnplayedExcept_narrow(e) ==
  IF IsInstance(e, "TrackLimitExceededError")
    THEN Return(ApiResponse(FALSE, "Failed to create unplayed tracks playlist"))
    ELSE Raise(e)

\* The except clauses of the four mutating operations.
UnplayedExcept(e) ==
  IF IsInstance(e, "Exception")
    THEN Return(ApiResponse(FALSE, "Failed to create unplayed tracks playlist"))
    ELSE Raise(e)

MergeExcept(e) ==
  IF IsInstance(e, "TrackLimitExceededError")
    THEN Return(ApiResponse(FALSE, "playlistTrackLimitExceeded"))
  ELSE IF IsInstance(e, "Exception")
    THEN Return(ApiResponse(FALSE, "Failed to merge playlists"))
  ELSE Raise(e)

RandomExcept(e) ==
  IF IsInstance(e, "Exception")
    THEN Return(ApiResponse(FALSE, "Failed to create random playlist"))
    ELSE Raise(e)

DeleteExcept(e) ==
  IF IsInstance(e, "Exception")
    THEN Return(ApiResponse(FALSE, "Failed to delete playlist"))
    ELSE Raise(e)

ManagerExcept(endpoint, e) ==
  CASE endpoint = "unplayed" -> UnplayedExcept(e)
    [] endpoint = "merge" -> MergeExcept(e)
    [] endpoint = "random" -> RandomExcept(e)
    [] endpoint = "delete" -> DeleteExcept(e)

\* ---------------------------------------------------------------- routes
HTTPException(status) == [status |-> status, body |-> "detail"]

\* get_playlist_manager: 401 for InvalidTokenError, 500 for anything else
DependsExcept(e) ==
  IF IsInstance(e, "InvalidTokenError") THEN HTTPException(401)
  ELSE HTTPException(500)

\* The except clauses of a handler that uses a manager: 400 for
\* TrackLimitExceededError and PlaylistManagerError; anything else leaves the
\* handler and the framework answers 500.
RouteExcept(e) ==
  IF IsInstance(e, "TrackLimitExceededError") THEN HTTPException(400)
  ELSE IF IsInstance(e, "PlaylistManagerError") THEN HTTPException(400)
  ELSE HTTPException(500)

\* try: return manager.operation(...) except ...
RouteResponse(out) ==
  IF out.kind = "return" THEN [status |-> 200, body |-> out.value]
  ELSE RouteExcept(out.exc)

\* track_ids[:track_count]
Slice(s, k) ==
  IF k >= 0 THEN SubSeq(s, 1, IF k < Len(s) THEN k ELSE Len(s))
  ELSE SubSeq(s, 1, IF Len(s) + k > 0 THEN Len(s) + k ELSE 0)

\* self._client.post_playlist(options.visibility.value, options.title, track_ids)
PostPlaylistArgs(options, track_ids) == <<options.visibility, options.title, track_ids>>

\* --------------------------------------------------------------- actions
NoTracks == [p \in {} |-> <<>>]

Init ==
  /\ pc = "idle"
  /\ req = [endpoint |-> "none"]
  /\ upstream = NoTracks
  /\ client = <<>>
  /\ calls = <<>>
  /\ base_tracks = {}
  /\ played_tracks = {}
  /\ all_tracks = {}
  /\ idx = 1
  /\ create_args = <<>>
  /\ create_out = <<>>
  /\ ret = <<>>
  /\ resp = <<>>

\* The handler's result leaves through the route: ret is how the manager
\* operation ended, resp what the client of the service receives.
Finish(out) ==
  /\ ret' = <<out>>
  /\ resp' = <<RouteResponse(out)>>
  /\ pc' = "done"

\* A request arrives.
Receive ==
  /\ pc = "idle"
  /\ \E r \in Requests :
       /\ req' = r
       /\ pc' = IF r.endpoint \in {"health", "token_validate"} THEN "handler" ELSE "depends"
  /\ UNCHANGED <<upstream, client, calls, locals, create_args, create_out, ret, resp>>

\* The response is sent.  The manager, its client and every local of the
\* request are dropped: nothing is kept from one request to the next.
Respond ==
  /\ pc = "done"
  /\ pc' = "idle"
  /\ req' = [endpoint |-> "none"]
  /\ upstream' = NoTracks
  /\ client' = <<>>
  /\ calls' = <<>>
  /\ base_tracks' = {}
  /\ played_tracks' = {}
  /\ all_tracks' = {}
  /\ idx' = 1
  /\ create_args' = <<>>
  /\ create_out' = <<>>
  /\ ret' = <<>>
  /\ resp' = <<>>

health_check ==
  /\ pc = "handler"
  /\ req.endpoint = "health"
  /\ resp' = <<[status |-> 200, body |-> "healthy"]>>
  /\ pc' = "done"
  /\ UNCHANGED <<req, upstream, client, calls, locals, create_args, create_out, ret>>

\* Depends(get_playlist_manager): runs before the handler's body.
get_playlist_manager ==
  /\ pc = "depends"
  /\ \E o \in InitOutcomes :
       LET m == __init__(req.token, o)
       IN /\ calls' = calls \o ValidateCalls(req.token, o)
          /\ IF m.kind = "return"
               THEN /\ client' = m.value
                    /\ pc' = "handler"
                    /\ resp' = resp
               ELSE /\ client' = client
                    /\ pc' = "done"
                    /\ resp' = <<DependsExcept(m.exc)>>
  /\ UNCHANGED <<req, upstream, locals, create_args, create_out, ret>>

validate_token ==
  /\ pc = "handler"
  /\ req.endpoint = "token_validate"
  /\ \E o \in InitOutcomes :
       LET m == __init__(req.token, o)
       IN /\ calls' = calls \o ValidateCalls(req.token, o)
          /\ client' = IF m.kind = "return" THEN m.value ELSE client
          /\ resp' = IF m.kind = "return"
                       THEN <<[status |-> 200, body |-> ApiResponse(TRUE, "Token is valid")]>>
                     ELSE IF IsInstance(m.exc, "InvalidTokenError")
                       THEN <<[status |-> 200, body |-> ApiResponse(FALSE, "Failed to validate token")]>>
                     ELSE <<HTTPException(500)>>
  /\ pc' = "done"
  /\ UNCHANGED <<req, upstream, locals, create_args, create_out, ret>>

get_current_user ==
  /\ pc = "handler"
  /\ req.endpoint = "users_me"
  /\ \E ok \in BOOLEAN :
       LET r == Manager_get_user(<<>>, ok)
       IN calls' = calls \o r.calls /\ Finish(r.out)
  /\ UNCHANGED <<req, upstream, client, locals, create_args, create_out>>

get_user ==
  /\ pc = "handler"
  /\ req.endpoint = "users_id"
  /\ \E ok \in BOOLEAN :
       LET r == Manager_get_user(req.user_id, ok)
       IN calls' = calls \o r.calls /\ Finish(r.out)
  /\ UNCHANGED <<req, upstream, client, locals, create_args, create_out>>

get_playlists ==
  /\ pc = "handler"
  /\ req.endpoint = "playlists"
  /\ \E ok1, ok2 \in BOOLEAN :
       LET r == Manager_list("get_user_playlists", req.user_id, ok1, ok2)
       IN calls' = calls \o r.calls /\ Finish(r.out)
  /\ UNCHANGED <<req, upstream, client, locals, create_args, create_out>>

get_tracks ==
  /\ pc = "handler"
  /\ req.endpoint = "tracks"
  /\ \E ok1, ok2 \in BOOLEAN :
       LET r == Manager_list("get_user_tracks", req.user_id, ok1, ok2)
       IN calls' = calls \o r.calls /\ Finish(r.out)
  /\ UNCHANGED <<req, upstream, client, locals, create_args, create_out>>

delete_playlist ==
  /\ pc = "handler"
  /\ req.endpoint = "delete"
  /\ \E ok \in BOOLEAN :
       /\ calls' = Append(calls, ClientCall("delete_playlist", client[1], <<req.playlist_id>>,
                                            IF ok THEN "ok" ELSE "raise"))
       /\ Finish(IF ok THEN Return(ApiResponse(TRUE, "Playlist deleted successfully"))
                 ELSE DeleteExcept("UpstreamError"))
  /\ UNCHANGED <<req, upstream, client, locals, create_args, create_out>>

\* options = PlaylistCreateOptions(title=request.title, visibility=request.visibility)
OptionsOf(r) == PlaylistCreateOptions(r.title, r.visibility)

\* return self._create_playlist(options, track_ids): the call is entered.
CallCreatePlaylist(track_ids) ==
  /\ create_args' = <<[options |-> OptionsOf(req), track_ids |-> track_ids]>>
  /\ pc' = "create"
  /\ UNCHANGED <<ret, resp>>

\* create_unplayed_tracks_playlist, up to the for loop:
\*   base_tracks = set(self._get_track_ids(base_playlist_id)); played_tracks = set()
create_unplayed_tracks_playlist ==
  /\ pc = "handler"
  /\ req.endpoint = "unplayed"
  /\ \E o \in GetPlaylistOutcomes(req.base_playlist_id) :
       LET t == _get_track_ids(o.tracks, o.ok)
       IN /\ calls' = Append(calls, GetPlaylistCall(req.base_playlist_id, o.ok))
          /\ upstream' = Reveal(req.base_playlist_id, o)
          /\ IF t.kind = "return"
               THEN /\ base_tracks' = Range(t.value)
                    /\ played_tracks' = {}
                    /\ pc' = "loop"
                    /\ UNCHANGED <<ret, resp>>
               ELSE /\ Finish(UnplayedExcept(t.exc))
                    /\ UNCHANGED <<base_tracks, played_tracks>>
  /\ UNCHANGED <<req, client, all_tracks, idx, create_args, create_out>>

\* One iteration of `for playlist_id in played_playlist_ids`, or, the list
\* exhausted, unplayed_tracks = list(base_tracks - played_tracks) and the call
\* of _create_playlist.
create_unplayed_for_played ==
  /\ pc = "loop"
  /\ req.endpoint = "unplayed"
  /\ IF idx <= Len(req.played_playlist_ids)
       THEN LET playlist_id == req.played_playlist_ids[idx]
            IN \E o \in GetPlaylistOutcomes(playlist_id) :
              LET t == _get_track_ids(o.tracks, o.ok)
              IN /\ calls' = Append(calls, GetPlaylistCall(playlist_id, o.ok))
                 /\ upstream' = Reveal(playlist_id, o)
                 /\ IF t.kind = "return"
                      THEN /\ played_tracks' = Update(played_tracks, t.value)
                           /\ idx' = idx + 1
                           /\ UNCHANGED <<pc, ret, resp>>
                      ELSE /\ Finish(UnplayedExcept(t.exc))
                           /\ UNCHANGED <<played_tracks, idx>>
                 /\ UNCHANGED create_args
       ELSE /\ CallCreatePlaylist(ListOfSet(Unplayed(base_tracks, played_tracks)))
            /\ UNCHANGED <<calls, upstream, played_tracks, idx>>
  /\ UNCHANGED <<req, client, base_tracks, all_tracks, create_out>>

\* merge_playlists: all_tracks = set(); one iteration of `for playlist_id in
\* playlist_ids`, or, the list exhausted, the call of _create_playlist.
merge_playlists ==
  /\ pc = "handler"
  /\ req.endpoint = "merge"
  /\ IF idx <= Len(req.playlist_ids)
       THEN LET playlist_id == req.playlist_ids[idx]
            IN \E o \in GetPlaylistOutcomes(playlist_id) :
              LET t == _get_track_ids(o.tracks, o.ok)
              IN /\ calls' = Append(calls, GetPlaylistCall(playlist_id, o.ok))
                 /\ upstream' = Reveal(playlist_id, o)
                 /\ IF t.kind = "return"
                      THEN /\ all_tracks' = Update(all_tracks, t.value)
                           /\ idx' = idx + 1
                           /\ UNCHANGED <<pc, ret, resp>>
                      ELSE /\ Finish(MergeExcept(t.exc))
                           /\ UNCHANGED <<all_tracks, idx>>
                 /\ UNCHANGED create_args
       ELSE /\ CallCreatePlaylist(ListOfSet(all_tracks))
            /\ UNCHANGED <<calls, upstream, all_tracks, idx>>
  /\ UNCHANGED <<req, client, base_tracks, played_tracks, create_out>>

\* create_random_playlist: the read, the count check, random.shuffle and the
\* slice.  random.shuffle raises NameError when `random` is not a name of the
\* module.
create_random_playlist ==
  /\ pc = "handler"
  /\ req.endpoint = "random"
  /\ \E o \in GetPlaylistOutcomes(req.base_playlist_id) :
       LET t == _get_track_ids(o.tracks, o.ok)
       IN /\ calls' = Append(calls, GetPlaylistCall(req.base_playlist_id, o.ok))
          /\ upstream' = Reveal(req.base_playlist_id, o)
          /\ IF t.kind = "raise"
               THEN Finish(RandomExcept(t.exc)) /\ UNCHANGED create_args
             ELSE IF CountExceedsAvailable(req.track_count, t.value)
               THEN /\ Finish(Return(ApiResponse(FALSE, "Requested track count exceeds available tracks")))
                    /\ UNCHANGED create_args
             ELSE IF ~RandomIsBound
               THEN Finish(RandomExcept("NameError")) /\ UNCHANGED create_args
             ELSE \E track_ids \in Shuffles(t.value) :
                    CallCreatePlaylist(Slice(track_ids, req.track_count))
  /\ UNCHANGED <<req, client, locals, create_out>>

\* Mutant of PostPlaylistResult: success is reported whatever post_playlist did.
PostPlaylistResult_optimistic(ok) ==
  Return(ApiResponse(TRUE, "Playlist created successfully. Check your playlists :)"))

\* _create_playlist after the limit check: the outcome of post_playlist as an
\* ApiResponse.
PostPlaylistResult(ok) ==
  IF ok THEN Return(ApiResponse(TRUE, "Playlist created successfully. Check your playlists :)"))
  ELSE Return(ApiResponse(FALSE, "Failed to create playlist"))

\* _create_playlist(options, track_ids).  TrackLimitExceededError is raised
\* into the calling operation, whose except clause handles it.
_create_playlist ==
  /\ pc = "create"
  /\ LET options == create_args[1].options
         track_ids == create_args[1].track_ids
     IN IF TrackLimitExceeded(options, track_ids)
          THEN /\ create_out' = <<Raise("TrackLimitExceededError")>>
               /\ Finish(ManagerExcept(req.endpoint, "TrackLimitExceededError"))
               /\ UNCHANGED calls
          ELSE \E ok \in BOOLEAN :
                 /\ calls' = Append(calls, ClientCall("post_playlist", client[1],
                                                      PostPlaylistArgs(options, track_ids),
                                                      IF ok THEN "ok" ELSE "raise"))
                 /\ create_out' = <<PostPlaylistResult(ok)>>
                 /\ Finish(PostPlaylistResult(ok))
  /\ UNCHANGED <<req, upstream, client, locals, create_args>>

Next ==
  \/ Receive
  \/ Respond
  \/ health_check
  \/ get_playlist_manager
  \/ validate_token
  \/ get_current_user
  \/ get_user
  \/ get_playlists
  \/ get_tracks
  \/ delete_playlist
  \/ create_unplayed_tracks_playlist
  \/ create_unplayed_for_played
  \/ merge_playlists
  \/ create_random_playlist
  \/ _create_playlist

Spec == Init /\ [][Next]_vars

\* ------------------------------------------------------------ properties
\* What the request's call log shows.
CallsOf(fn) == {i \in DOMAIN calls : calls[i].fn = fn}
Posts == CallsOf("post_playlist")
Reads == CallsOf("get_playlist")
ClientMethods == {"get_playlist", "post_playlist", "delete_playlist", "get_me",
                  "get_user", "get_user_playlists", "get_user_tracks"}

\* The playlist ids a derive operation has to read, in the order it reads them.
RequiredReads(r) ==
  CASE r.endpoint = "unplayed" -> <<r.base_playlist_id>> \o r.played_playlist_ids
    [] r.endpoint = "merge" -> r.playlist_ids
    [] r.endpoint = "random" -> <<r.base_playlist_id>>

\* The manager operation has ended with an ApiResponse of this success.
Returned(success) ==
  /\ ret # <<>>
  /\ ret[1].kind = "return"
  /\ DOMAIN ret[1].value = {"success", "message"}
  /\ ret[1].value.success = success

\* The set of the tracks of a playlist the request has read.
LargeTrackSet == Range(LargeTrackList)
TrackSetOf(playlist_id) ==
  IF playlist_id = LargePlaylistId THEN LargeTrackSet ELSE Range(TracksOf(playlist_id))

\* The operation named is calling _create_playlist: create_args is what it
\* hands over.
Handed(endpoint) == req.endpoint = endpoint /\ pc = "create"

\* C1: the track ids create_unplayed_tracks_playlist hands to _create_playlist
\* are the base playlist's tracks minus the union of the played playlists'
\* tracks: a subset of the base, disjoint from every played playlist, and the
\* base itself when no played playlist is given.
C1_UnplayedIsBaseMinusPlayed ==
  Handed("unplayed") =>
    LET B == TrackSetOf(req.base_playlist_id)
        P(k) == TrackSetOf(req.played_playlist_ids[k])
        handed == Range(create_args[1].track_ids)
    IN /\ handed = B \ UNION {P(k) : k \in DOMAIN req.played_playlist_ids}
       /\ handed \subseteq B
       /\ \A k \in DOMAIN req.played_playlist_ids : handed \cap P(k) = {}
       /\ (req.played_playlist_ids = <<>> => handed = B)

\* Two different played playlists each remove a track of the base and some
\* tracks are left.
C1_Witness ==
  /\ Handed("unplayed")
  /\ Len(req.played_playlist_ids) = MaxIds
  /\ LET B == TrackSetOf(req.base_playlist_id)
         P(k) == TrackSetOf(req.played_playlist_ids[k])
         handed == Range(create_args[1].track_ids)
     IN /\ handed # {}
        /\ \A k \in DOMAIN req.played_playlist_ids : P(k) \cap B # {}
        /\ P(1) # P(2)
        /\ Cardinality(handed) < Cardinality(B)

\* C2: the track ids merge_playlists hands to _create_playlist are the union
\* of the playlists' tracks, each track once; a playlist merged with itself
\* gives that playlist's tracks.
C2_MergeIsUnion ==
  Handed("merge") =>
    LET T(k) == TrackSetOf(req.playlist_ids[k])
        track_ids == create_args[1].track_ids
    IN /\ Range(track_ids) = UNION {T(k) : k \in DOMAIN req.playlist_ids}
       /\ Len(track_ids) = Cardinality(Range(track_ids))
       /\ ((\A k \in DOMAIN req.playlist_ids : req.playlist_ids[k] = req.playlist_ids[1])
             /\ req.playlist_ids # <<>> => Range(track_ids) = T(1))

\* Two playlists that share a track and each hold a track of their own.
C2_Witness ==
  /\ Handed("merge")
  /\ Len(req.playlist_ids) = 2
  /\ LET T(k) == TrackSetOf(req.playlist_ids[k])
     IN /\ T(1) \cap T(2) # {}
        /\ T(1) \ T(2) # {}
        /\ T(2) \ T(1) # {}

\* C3: when the base playlist is read and track_count <= len(ids),
\* create_random_playlist hands exactly track_count distinct elements of ids
\* to _create_playlist.
C3_RandomHandsKTracks ==
  (/\ req.endpoint = "random"
   /\ pc = "done"
   /\ \E i \in Reads : calls[i].result = "ok"
   /\ req.track_count <= Len(TracksOf(req.base_playlist_id)))
  => /\ create_args # <<>>
     /\ LET ids == TracksOf(req.base_playlist_id)
            selected == create_args[1].track_ids
        IN /\ Len(selected) = req.track_count
           /\ \E pos \in [1..Len(selected) -> 1..Len(ids)] :
                /\ \A a, b \in 1..Len(selected) : a # b => pos[a] # pos[b]
                /\ \A a \in 1..Len(selected) : selected[a] = ids[pos[a]]

\* C4: _create_playlist raises TrackLimitExceededError when len(track_ids) >
\* options.track_limit (500 by default), and post_playlist is then not called;
\* otherwise it calls post_playlist once with the visibility, the title and
\* the track ids it was given.
C4_TrackLimit ==
  create_out # <<>> =>
    LET options == create_args[1].options
        track_ids == create_args[1].track_ids
    IN /\ options.track_limit = DefaultTrackLimit
       /\ IF Len(track_ids) > options.track_limit
            THEN /\ create_out[1] = Raise("TrackLimitExceededError")
                 /\ Posts = {}
            ELSE /\ create_out[1].kind = "return"
                 /\ Cardinality(Posts) = 1
                 /\ \A i \in Posts :
                      calls[i].arg = <<req.visibility, req.title, track_ids>>

\* One track more than the limit is refused.
C4_Witness ==
  /\ create_out # <<>>
  /\ Len(create_args[1].track_ids) = DefaultTrackLimit + 1
  /\ create_out[1] = Raise("TrackLimitExceededError")
  /\ Posts = {}

\* C5: a mutating endpoint answers an error by its class: 401 when the token
\* is invalid, 400 when the track limit is exceeded, 500 when post_playlist or
\* delete_playlist raises.  (A failed get_playlist is an upstream failure that
\* the manager turns into its own PlaylistManagerError: either 400 or 500 is
\* accepted for it.)
C5_StatusByErrorClass ==
  (pc = "done" /\ IsMutating(req)) =>
    /\ (\E i \in CallsOf("is_auth_token_valid") : calls[i].result = "false")
         => resp[1].status = 401
    /\ create_out = <<Raise("TrackLimitExceededError")>>
         => resp[1].status = 400
    /\ (\E i \in Reads : calls[i].result = "raise")
         => resp[1].status \in {400, 500}
    /\ (\E i \in Posts \cup CallsOf("delete_playlist") : calls[i].result = "raise")
         => resp[1].status = 500

\* C6: no method of the manager's client is called before is_auth_token_valid
\* has returned true for the request's token, and none at all when the
\* validation fails.
C6_ValidatedFirst ==
  /\ \A i \in DOMAIN calls :
       calls[i].fn \in ClientMethods =>
         /\ calls[i].token = req.token
         /\ \E j \in 1..(i - 1) :
              /\ calls[j].fn = "is_auth_token_valid"
              /\ calls[j].token = req.token
              /\ calls[j].result = "true"
  /\ (\E j \in CallsOf("is_auth_token_valid") : calls[j].result # "true")
       => \A i \in DOMAIN calls : calls[i].fn \notin ClientMethods
  /\ (pc \notin {"idle", "depends"} /\ UsesManager(req) /\ CallsOf("is_auth_token_valid") = {})
       => \A i \in DOMAIN calls : calls[i].fn \notin ClientMethods

\* A playlist is read after the token has been found valid.
C6_Witness ==
  /\ Len(calls) >= 2
  /\ calls[1].fn = "is_auth_token_valid"
  /\ calls[1].result = "true"
  /\ calls[2].fn = "get_playlist"

\* C7: a mutating manager operation ends by returning a {success, message}
\* envelope, whatever happened in it; no exception leaves it.
C7_AlwaysEnvelope ==
  (IsMutating(req) /\ ret # <<>>) =>
    /\ ret[1].kind = "return"
    /\ DOMAIN ret[1].value = {"success", "message"}
    /\ ret[1].value.success \in BOOLEAN
    /\ ((\/ create_out = <<Raise("TrackLimitExceededError")>>
         \/ \E i \in DOMAIN calls : calls[i].result = "raise")
          => ret[1].value.success = FALSE)

\* The track limit is exceeded in create_unplayed_tracks_playlist, whose only
\* except clause is the general one.
C7_Witness ==
  /\ req.endpoint = "unplayed"
  /\ create_out = <<Raise("TrackLimitExceededError")>>
  /\ Returned(FALSE)

\* C8: when track_count exceeds the number of tracks read, create_random_playlist
\* returns the failure envelope that says so; it hands nothing to
\* _create_playlist and post_playlist is not called.
C8_CountExceedsFails ==
  (/\ req.endpoint = "random"
   /\ pc = "done"
   /\ \E i \in Reads : calls[i].result = "ok"
   /\ req.track_count > Len(TracksOf(req.base_playlist_id)))
  => /\ ret = <<Return(ApiResponse(FALSE, "Requested track count exceeds available tracks"))>>
     /\ create_args = <<>>
     /\ Posts = {}

C8_Witness ==
  /\ req.endpoint = "random"
  /\ pc = "done"
  /\ \E i \in Reads : calls[i].result = "ok"
  /\ Len(TracksOf(req.base_playlist_id)) > 0
  /\ req.track_count > Len(TracksOf(req.base_playlist_id))
  /\ Returned(FALSE)

\* C9: a derive operation reads each playlist once, in order, and stops at
\* the first read that fails; post_playlist is called at most once, and only
\* after every read has succeeded; after a failed read the operation returns
\* success=false.
C9_NoRetryAllOrNothing ==
  IsDerive(req) =>
    LET required == RequiredReads(req)
        reads == SelectSeq(calls, LAMBDA c : c.fn = "get_playlist")
    IN /\ Len(reads) <= Len(required)
       /\ \A k \in DOMAIN reads :
            /\ reads[k].arg = <<required[k]>>
            /\ (k < Len(reads) => reads[k].result = "ok")
       /\ Cardinality(Posts) <= 1
       /\ \A i \in Posts :
            /\ Len(reads) = Len(required)
            /\ \A j \in Reads : j < i /\ calls[j].result = "ok"
       /\ (\E j \in Reads : calls[j].result = "raise")
            => /\ Posts = {}
               /\ (pc = "done" => Returned(FALSE))

\* The second read fails after the first succeeded.
C9_Witness ==
  /\ IsDerive(req)
  /\ pc = "done"
  /\ Cardinality(Reads) = 2
  /\ \E j \in Reads : calls[j].result = "ok"
  /\ \E j \in Reads : calls[j].result = "raise"
  /\ Returned(FALSE)
  /\ Posts = {}

\* C10: a derive operation returns success=true exactly when post_playlist
\* was called once and returned.
C10_SuccessIffCreated ==
  (IsDerive(req) /\ pc = "done" /\ ret # <<>>) =>
    (Returned(TRUE) <=> (Cardinality(Posts) = 1 /\ \A i \in Posts : calls[i].result = "ok"))

C10_Witness ==
  /\ IsDerive(req)
  /\ pc = "done"
  /\ Returned(TRUE)
  /\ \E i \in Posts : calls[i].result = "ok"

====
